---- MODULE Spec2Model ----
(***************************************************************************)
(* UnixSockTwoWayStream (src/carriers/unix/UnixSockTwoWayStream.cpp):      *)
(* the connection lifecycle and the interrupt/close protocol of a stream   *)
(* over a unix-domain socket, run by several threads on one instance.      *)
(*                                                                         *)
(* Instance 0 is the stream the threads share.  Instance t (t a thread) is *)
(* the local `tmp` stream that thread t constructs inside interrupt().     *)
(* Every method is translated once, over the instance it is called on, and *)
(* a thread's position is a stack of frames (close calls interrupt, write  *)
(* calls close, interrupt calls tmp.open, tmp.write and tmp.close).        *)
(*                                                                         *)
(* The operating system is modelled as a table of descriptors that name    *)
(* socket objects: socket() and accept() take the lowest free descriptor,  *)
(* close() frees it, shutdown() marks the object so that a blocked read    *)
(* of it returns 0.                                                        *)
(***************************************************************************)
EXTENDS Integers, Sequences, FiniteSets, TLC

\* ---------------------------------------------------------------- bounds
NumThreads == 2
NumFds == 3
MaxData == 1

\* ------------------------------------------------------ program constants
ConnectAttempts == 5
WakeAttempts == 3

Threads == 1..NumThreads
Main == 0
Instances == {Main} \cup Threads
\* descriptors 0, 1 and 2 are the standard streams
FdPool == 3..(NumFds + 2)
\* one socket for open(), one for accept(), one per wake attempt
MaxObj == 2 + WakeAttempts
Objs == 1..MaxObj

VARIABLES
    closed,          \* instance -> BOOLEAN          (field closed)
    interrupting,    \* instance -> BOOLEAN          (field interrupting)
    happy,           \* instance -> BOOLEAN          (field happy)
    openedAsReader,  \* instance -> BOOLEAN          (field openedAsReader)
    reader_fd,       \* instance -> descriptor or -1 (field reader_fd)
    sender_fd,       \* instance -> descriptor or -1 (field sender_fd)
    mutex,           \* instance -> owning thread, 0 when free
    stack,           \* thread -> sequence of frames, <<>> when idle
    opened,          \* "no", "opening", "ok", "failed": open() of instance 0
    fdtab,           \* descriptor -> socket object it names, 0 when free
    objs,            \* socket object -> [kind, shut]
    nObj,            \* socket objects created so far
    nameBound,       \* the socket name exists in the filesystem
    inbuf,           \* chunks the remote peer sent that are not read yet
    remoteClosed,    \* the remote peer closed its end
    actorCount,      \* times a thread became the actor on instance 0 (0..2)
    closeReturned    \* some close() of instance 0 has returned

flags == <<closed, interrupting, happy>>
fields == <<openedAsReader, reader_fd, sender_fd>>
os == <<fdtab, objs, nObj, nameBound>>
net == <<inbuf, remoteClosed>>
hist == <<actorCount, closeReturned>>
vars == <<closed, interrupting, happy, openedAsReader, reader_fd, sender_fd,
          mutex, stack, opened, fdtab, objs, nObj, nameBound, inbuf,
          remoteClosed, actorCount, closeReturned>>

\* ---------------------------------------------------------------- frames
NewFrame(pc, self, late) ==
    [pc |-> pc, self |-> self, sender |-> FALSE, act |-> FALSE, ct |-> 0,
     attempts |-> 0, result |-> 0, ret |-> 0, err |-> "none", obj |-> 0,
     sawClosed |-> FALSE, late |-> late]

Depth(t) == Len(stack[t])
Top(t) == stack[t][Depth(t)]
Busy(t) == Depth(t) > 0
At(t, pc) == Busy(t) /\ Top(t).pc = pc

\* the top frame becomes f
SetTop(t, f) == stack' = [stack EXCEPT ![t][Depth(t)] = f]
Goto(t, pc) == SetTop(t, [Top(t) EXCEPT !.pc = pc])
\* the caller continues at retpc once the callee frame is popped
CallFrom(t, caller, callee) ==
    stack' = [stack EXCEPT ![t] = Append([@ EXCEPT ![Depth(t)] = caller], callee)]
Call(t, retpc, callee) == CallFrom(t, [Top(t) EXCEPT !.pc = retpc], callee)
\* a thread that is in no call enters one on the shared instance
Enter(t, pc) == stack' = [stack EXCEPT ![t] = <<NewFrame(pc, Main, closeReturned)>>]
Return(t) == stack' = [stack EXCEPT ![t] = SubSeq(@, 1, Depth(t) - 1)]

\* ------------------------------------------------------ operating system
NoObj == [kind |-> "none", shut |-> FALSE, live |-> FALSE]
NewObj(kind) == [kind |-> kind, shut |-> FALSE, live |-> TRUE]
Connected(o) == o \in Objs /\ objs[o].live /\ objs[o].kind \in {"link", "wake"}
IsFd(fd) == fd \in FdPool /\ fdtab[fd] # 0
ObjOf(fd) == IF fd \in FdPool THEN fdtab[fd] ELSE 0
KindOf(o) == IF o \in Objs THEN objs[o].kind ELSE "none"
CanAlloc == nObj < MaxObj /\ \E fd \in FdPool : fdtab[fd] = 0
LowestFree == CHOOSE fd \in FdPool : fdtab[fd] = 0 /\ \A g \in FdPool : fdtab[g] = 0 => fd <= g
LocalListener == nameBound /\ \E o \in Objs : objs[o].kind = "listen" /\ objs[o].live

\* ::shutdown(fd, SHUT_RDWR): marks the object; EBADF changes nothing
OsShutdown(fd) ==
    objs' = IF IsFd(fd) THEN [objs EXCEPT ![fdtab[fd]].shut = TRUE] ELSE objs
\* ::close(fd): frees the descriptor and ends the object, and with the
\* connection to the peer go its unread input and the peer's state; EBADF
\* changes nothing
OsClose(fd) ==
    /\ fdtab' = IF IsFd(fd) THEN [fdtab EXCEPT ![fd] = 0] ELSE fdtab
    /\ objs' = IF IsFd(fd) THEN [objs EXCEPT ![fdtab[fd]].live = FALSE] ELSE objs
    /\ inbuf' = IF KindOf(ObjOf(fd)) = "link" THEN 0 ELSE inbuf
    /\ remoteClosed' = IF KindOf(ObjOf(fd)) = "link" THEN FALSE ELSE remoteClosed

\* ------------------------------------------------------------------ Init
\* the member initialisers of the class (UnixSockTwoWayStream.h): a stream
\* starts not closed, not interrupting, happy, with no descriptor
Initial ==
    [closed |-> FALSE, interrupting |-> FALSE, happy |-> TRUE,
     openedAsReader |-> FALSE, reader_fd |-> -1, sender_fd |-> -1]

\* the state after construction (lines 28-31)
Init ==
    /\ closed = [i \in Instances |-> Initial.closed]
    /\ interrupting = [i \in Instances |-> Initial.interrupting]
    /\ happy = [i \in Instances |-> Initial.happy]
    /\ openedAsReader = [i \in Instances |-> Initial.openedAsReader]
    /\ reader_fd = [i \in Instances |-> Initial.reader_fd]
    /\ sender_fd = [i \in Instances |-> Initial.sender_fd]
    /\ mutex = [i \in Instances |-> 0]
    /\ stack = [t \in Threads |-> <<>>]
    /\ opened = "no"
    /\ fdtab = [fd \in FdPool |-> 0]
    /\ objs = [o \in Objs |-> NoObj]
    /\ nObj = 0
    /\ nameBound = FALSE
    /\ inbuf = 0
    /\ remoteClosed = FALSE
    /\ actorCount = 0
    /\ closeReturned = FALSE

\* ---------------------------------------------------------------- open()
\* lines 35-40: openedAsReader = !sender; reader_fd = ::socket(...)
OpenSocket(t) ==
    /\ At(t, "open_socket")
    /\ LET f == Top(t)
           i == f.self
       IN /\ openedAsReader' = [openedAsReader EXCEPT ![i] = ~f.sender]
          /\ \/ /\ CanAlloc
                /\ reader_fd' = [reader_fd EXCEPT ![i] = LowestFree]
                /\ fdtab' = [fdtab EXCEPT ![LowestFree] = nObj + 1]
                /\ objs' = [objs EXCEPT ![nObj + 1] = NewObj("sock")]
                /\ nObj' = nObj + 1
                /\ Goto(t, IF f.sender THEN "open_connect" ELSE "open_unlink")
             \/ /\ reader_fd' = [reader_fd EXCEPT ![i] = -1]
                /\ SetTop(t, [f EXCEPT !.pc = "open_ret", !.result = 0])
                /\ UNCHANGED <<fdtab, objs, nObj>>
    /\ UNCHANGED <<flags, sender_fd, mutex, opened, nameBound, net, hist>>

\* lines 50-52: the receiver removes a stale filesystem entry
OpenUnlink(t) ==
    /\ At(t, "open_unlink")
    /\ nameBound' = FALSE
    /\ Goto(t, "open_bind")
    /\ UNCHANGED <<flags, fields, mutex, opened, fdtab, objs, nObj, net, hist>>

\* lines 72-75: ::bind
OpenBind(t) ==
    /\ At(t, "open_bind")
    /\ \/ /\ ~nameBound
          /\ nameBound' = TRUE
          /\ Goto(t, "open_listen")
       \/ /\ SetTop(t, [Top(t) EXCEPT !.pc = "open_ret", !.result = 0])
          /\ UNCHANGED nameBound
    /\ UNCHANGED <<flags, fields, mutex, opened, fdtab, objs, nObj, net, hist>>

\* lines 78-81: ::listen
OpenListen(t) ==
    /\ At(t, "open_listen")
    /\ LET fd == reader_fd[Top(t).self]
       IN \/ /\ IsFd(fd)
             /\ objs' = [objs EXCEPT ![fdtab[fd]].kind = "listen"]
             /\ Goto(t, "open_accept")
          \/ /\ SetTop(t, [Top(t) EXCEPT !.pc = "open_ret", !.result = 0])
             /\ UNCHANGED objs
    /\ UNCHANGED <<flags, fields, mutex, opened, fdtab, nObj, nameBound, net, hist>>

\* lines 85-88: sender_fd = ::accept(...), the one connection of the remote peer
OpenAccept(t) ==
    /\ At(t, "open_accept")
    /\ LET f == Top(t)
           i == f.self
       IN \/ /\ CanAlloc
             /\ sender_fd' = [sender_fd EXCEPT ![i] = LowestFree]
             /\ fdtab' = [fdtab EXCEPT ![LowestFree] = nObj + 1]
             /\ objs' = [objs EXCEPT ![nObj + 1] = NewObj("link")]
             /\ nObj' = nObj + 1
             /\ SetTop(t, [f EXCEPT !.pc = "open_ret", !.result = 1])
          \/ /\ sender_fd' = [sender_fd EXCEPT ![i] = -1]
             /\ SetTop(t, [f EXCEPT !.pc = "open_ret", !.result = 0])
             /\ UNCHANGED <<fdtab, objs, nObj>>
    /\ UNCHANGED <<flags, openedAsReader, reader_fd, mutex, opened, nameBound, net, hist>>

\* a loop that counts every attempt, also the one that succeeded
ConnectCount_EveryAttempt(attempts, ok) == attempts + 1

\* lines 60-64: the count after a pass of the connect loop; a pass whose
\* ::connect returned 0 leaves by break, before attempts++
ConnectCount(attempts, ok) == IF ok THEN attempts ELSE attempts + 1

\* lines 56-70: one pass of the connect loop, and the test after the loop
\* (line 67) once the loop is left.  A connect to a name this process
\* listens on succeeds; to a listener of another process it may or may not.
\* The shared instance's connection is the link to the remote peer, a
\* throwaway's is a wake connection nobody accepts.
OpenConnect(t) ==
    /\ At(t, "open_connect")
    /\ LET f == Top(t)
           i == f.self
           fd == reader_fd[i]
       IN \/ /\ f.attempts < ConnectAttempts
             /\ IsFd(fd)
             /\ objs' = [objs EXCEPT ![fdtab[fd]].kind =
                            IF i = Main THEN "link" ELSE "wake"]
             /\ LET a == ConnectCount(f.attempts, TRUE)
                IN SetTop(t, [f EXCEPT !.attempts = a, !.pc = "open_ret",
                                       !.result = IF a >= ConnectAttempts THEN 0 ELSE 1])
          \/ /\ f.attempts < ConnectAttempts
             /\ ~LocalListener
             /\ LET a == ConnectCount(f.attempts, FALSE)
                IN SetTop(t, [f EXCEPT !.attempts = a,
                                       !.pc = IF a < ConnectAttempts
                                              THEN "open_connect" ELSE "open_ret",
                                       !.result = 0])
             /\ UNCHANGED objs
    /\ UNCHANGED <<flags, fields, mutex, opened, fdtab, nObj, nameBound, net, hist>>

\* lines 39, 69, 74, 80, 87, 91: return; the caller sees the result
OpenReturn(t) ==
    /\ At(t, "open_ret")
    /\ opened' = IF Top(t).self = Main
                 THEN (IF Top(t).result = 1 THEN "ok" ELSE "failed")
                 ELSE opened
    /\ Return(t)
    /\ UNCHANGED <<flags, fields, mutex, os, net, hist>>

\* a thread calls open(sender) on the shared instance, once
CallOpenAs(t, sender) ==
    /\ ~Busy(t)
    /\ opened = "no"
    /\ stack' = [stack EXCEPT ![t] =
                    <<[NewFrame("open_socket", Main, FALSE) EXCEPT !.sender = sender]>>]
    /\ opened' = "opening"
    /\ UNCHANGED <<flags, fields, mutex, os, net, hist>>

CallOpen(t) == \E sender \in BOOLEAN : CallOpenAs(t, sender)

Open(t) ==
    \/ OpenSocket(t) \/ OpenUnlink(t) \/ OpenBind(t) \/ OpenListen(t)
    \/ OpenAccept(t) \/ OpenConnect(t) \/ OpenReturn(t)

\* ----------------------------------------------------------- interrupt()
\* a test that forgets closed and interrupting
ActCond_HappyOnly(i) == happy[i]

\* line 134: the test that makes the caller the actor
ActCond(i) == (~closed[i]) /\ (~interrupting[i]) /\ happy[i]

\* line 145: UnixSockTwoWayStream tmp(socketPath), and the end of its
\* lifetime: the fields of the throwaway of thread k hold the initial values
FreshTmp(k) ==
    /\ closed' = [closed EXCEPT ![k] = Initial.closed]
    /\ interrupting' = [interrupting EXCEPT ![k] = Initial.interrupting]
    /\ happy' = [happy EXCEPT ![k] = Initial.happy]
    /\ openedAsReader' = [openedAsReader EXCEPT ![k] = Initial.openedAsReader]
    /\ reader_fd' = [reader_fd EXCEPT ![k] = Initial.reader_fd]
    /\ sender_fd' = [sender_fd EXCEPT ![k] = Initial.sender_fd]

\* an actor that sets interrupting and leaves closed alone
IntCheck_KeepsOpen(t) ==
    /\ At(t, "int_check")
    /\ LET f == Top(t)
           i == f.self
       IN /\ mutex[i] = 0
          /\ IF ActCond(i)
             THEN /\ interrupting' = [interrupting EXCEPT ![i] = TRUE]
                  /\ actorCount' = IF i = Main /\ actorCount < 2
                                   THEN actorCount + 1 ELSE actorCount
                  /\ SetTop(t, [f EXCEPT !.act = TRUE, !.ct = WakeAttempts,
                                         !.pc = IF openedAsReader[i]
                                                THEN "int_loop" ELSE "int_release"])
                  /\ UNCHANGED closed
             ELSE /\ Goto(t, "int_wait")
                  /\ UNCHANGED <<interrupting, closed, actorCount>>
    /\ UNCHANGED <<happy, fields, mutex, opened, os, net, closeReturned>>

\* lines 132-141: under the mutex, test and set interrupting and closed
IntCheck(t) ==
    /\ At(t, "int_check")
    /\ LET f == Top(t)
           i == f.self
       IN /\ mutex[i] = 0
          /\ IF ActCond(i)
             THEN /\ interrupting' = [interrupting EXCEPT ![i] = TRUE]
                  /\ closed' = [closed EXCEPT ![i] = TRUE]
                  /\ actorCount' = IF i = Main /\ actorCount < 2
                                   THEN actorCount + 1 ELSE actorCount
                  /\ SetTop(t, [f EXCEPT !.act = TRUE, !.ct = WakeAttempts,
                                         !.pc = IF openedAsReader[i]
                                                THEN "int_loop" ELSE "int_release"])
             ELSE /\ Goto(t, "int_wait")
                  /\ UNCHANGED <<interrupting, closed, actorCount>>
    /\ UNCHANGED <<happy, fields, mutex, opened, os, net, closeReturned>>

\* a loop test that forgets happy
WakeMore_CountOnly(i, ct) == ct > 0

\* line 143: the test of the wake loop
WakeMore(i, ct) == happy[i] /\ ct > 0

\* lines 143-146: while (happy && ct > 0) { ct--; tmp; tmp.open(true);
IntLoop(t) ==
    /\ At(t, "int_loop")
    /\ LET f == Top(t)
           i == f.self
       IN IF WakeMore(i, f.ct)
          THEN /\ FreshTmp(t)
               /\ CallFrom(t, [f EXCEPT !.ct = f.ct - 1, !.pc = "int_repoint"],
                           [NewFrame("open_socket", t, f.late) EXCEPT !.sender = TRUE])
          ELSE /\ Goto(t, "int_release")
               /\ UNCHANGED <<flags, fields>>
    /\ UNCHANGED <<mutex, opened, os, net, hist>>

\* lines 152-153: tmp.reader_fd = sender_fd; tmp.write(empty.bytes())
IntRepoint(t) ==
    /\ At(t, "int_repoint")
    /\ reader_fd' = [reader_fd EXCEPT ![t] = sender_fd[Top(t).self]]
    /\ Call(t, "int_tmpclose", NewFrame("write_check", t, Top(t).late))
    /\ UNCHANGED <<flags, openedAsReader, sender_fd, mutex, opened, os, net, hist>>

\* lines 154-155: tmp.flush() does nothing; tmp.close()
IntTmpClose(t) ==
    /\ At(t, "int_tmpclose")
    /\ Call(t, "int_dtor", NewFrame("close_entry", t, Top(t).late))
    /\ UNCHANGED <<flags, fields, mutex, opened, os, net, hist>>

\* lines 156-159: the delay changes nothing; leaving the block runs ~tmp,
\* which calls close() (lines 94-97)
IntDtor(t) ==
    /\ At(t, "int_dtor")
    /\ Call(t, "int_scope", NewFrame("close_entry", t, Top(t).late))
    /\ UNCHANGED <<flags, fields, mutex, opened, os, net, hist>>

\* line 159: tmp is gone; back to the loop test
IntScope(t) ==
    /\ At(t, "int_scope")
    /\ FreshTmp(t)
    /\ Goto(t, "int_loop")
    /\ UNCHANGED <<mutex, opened, os, net, hist>>

\* a release step that leaves interrupting set
IntRelease_Forgets(t) ==
    /\ At(t, "int_release")
    /\ mutex[Top(t).self] = 0
    /\ Goto(t, "int_ret")
    /\ UNCHANGED <<flags, fields, mutex, opened, os, net, hist>>

\* a release step that clears closed together with interrupting
IntRelease_ClearsClosed(t) ==
    /\ At(t, "int_release")
    /\ mutex[Top(t).self] = 0
    /\ interrupting' = [interrupting EXCEPT ![Top(t).self] = FALSE]
    /\ closed' = [closed EXCEPT ![Top(t).self] = FALSE]
    /\ Goto(t, "int_ret")
    /\ UNCHANGED <<happy, fields, mutex, opened, os, net, hist>>

\* lines 162-164: under the mutex, interrupting = false
IntRelease(t) ==
    /\ At(t, "int_release")
    /\ mutex[Top(t).self] = 0
    /\ interrupting' = [interrupting EXCEPT ![Top(t).self] = FALSE]
    /\ Goto(t, "int_ret")
    /\ UNCHANGED <<closed, happy, fields, mutex, opened, os, net, hist>>

\* a caller that is not the actor returns without polling
IntWait_NoPoll(t) ==
    /\ At(t, "int_wait")
    /\ Goto(t, "int_ret")
    /\ UNCHANGED <<flags, fields, mutex, opened, os, net, hist>>

\* lines 167-172: a caller that is not the actor polls until interrupting
\* is false (each poll that finds it true changes nothing)
IntWait(t) ==
    /\ At(t, "int_wait")
    /\ ~interrupting[Top(t).self]
    /\ Goto(t, "int_ret")
    /\ UNCHANGED <<flags, fields, mutex, opened, os, net, hist>>

\* line 174
IntReturn(t) ==
    /\ At(t, "int_ret")
    /\ Return(t)
    /\ UNCHANGED <<flags, fields, mutex, opened, os, net, hist>>

Interrupt(t) ==
    \/ IntCheck(t) \/ IntLoop(t) \/ IntRepoint(t) \/ IntTmpClose(t) \/ IntDtor(t)
    \/ IntScope(t) \/ IntRelease(t) \/ IntWait(t) \/ IntReturn(t)

\* --------------------------------------------------------------- close()
\* the descriptor the instance does its I/O and its teardown on
\* (lines 192-200, 214, 232: openedAsReader ? sender_fd : reader_fd)
RoleFd(i) == IF openedAsReader[i] THEN sender_fd[i] ELSE reader_fd[i]

\* lines 178-180: if (reader_fd > 0) interrupt();
CloseEntry(t) ==
    /\ At(t, "close_entry")
    /\ IF reader_fd[Top(t).self] > 0
       THEN Call(t, "close_mark", NewFrame("int_check", Top(t).self, Top(t).late))
       ELSE Goto(t, "close_exit")
    /\ UNCHANGED <<flags, fields, mutex, opened, os, net, hist>>

\* a close() that leaves closed to interrupt()
CloseMark_Skip(t) ==
    /\ At(t, "close_mark")
    /\ mutex[Top(t).self] = 0
    /\ Goto(t, "close_wait")
    /\ UNCHANGED <<flags, fields, mutex, opened, os, net, hist>>

\* lines 181-183: under the mutex, closed = true
CloseMark(t) ==
    /\ At(t, "close_mark")
    /\ mutex[Top(t).self] = 0
    /\ closed' = [closed EXCEPT ![Top(t).self] = TRUE]
    /\ Goto(t, "close_wait")
    /\ UNCHANGED <<interrupting, happy, fields, mutex, opened, os, net, hist>>

\* lines 184-187: while (interrupting) { happy = false; delay }
CloseWait(t) ==
    /\ At(t, "close_wait")
    /\ LET i == Top(t).self
       IN IF interrupting[i]
          THEN /\ happy' = [happy EXCEPT ![i] = FALSE]
               /\ UNCHANGED stack
          ELSE /\ Goto(t, "close_lock")
               /\ UNCHANGED happy
    /\ UNCHANGED <<closed, interrupting, fields, mutex, opened, os, net, hist>>

\* line 188: mutex.lock()
CloseLock(t) ==
    /\ At(t, "close_lock")
    /\ mutex[Top(t).self] = 0
    /\ mutex' = [mutex EXCEPT ![Top(t).self] = t]
    /\ Goto(t, "close_shutdown")
    /\ UNCHANGED <<flags, fields, opened, os, net, hist>>

\* a teardown that closes the descriptor without shutting it down
CloseShutdown_Skip(t) ==
    /\ At(t, "close_shutdown")
    /\ Goto(t, "close_close")
    /\ UNCHANGED <<flags, fields, mutex, opened, os, net, hist>>

\* lines 193, 198: ::shutdown(fd, SHUT_RDWR)
CloseShutdown(t) ==
    /\ At(t, "close_shutdown")
    /\ OsShutdown(RoleFd(Top(t).self))
    /\ Goto(t, "close_close")
    /\ UNCHANGED <<flags, fields, mutex, opened, fdtab, nObj, nameBound, net, hist>>

\* lines 194, 199: ::close(fd)
CloseClose(t) ==
    /\ At(t, "close_close")
    /\ OsClose(RoleFd(Top(t).self))
    /\ Goto(t, "close_reset")
    /\ UNCHANGED <<flags, fields, mutex, opened, nObj, nameBound, hist>>

\* lines 195-196, 200-203: the receiver unlinks the name; the field is set
\* to -1; happy = false; mutex.unlock()
CloseReset(t) ==
    /\ At(t, "close_reset")
    /\ LET i == Top(t).self
       IN /\ nameBound' = IF openedAsReader[i] THEN FALSE ELSE nameBound
          /\ sender_fd' = IF openedAsReader[i]
                          THEN [sender_fd EXCEPT ![i] = -1] ELSE sender_fd
          /\ reader_fd' = IF openedAsReader[i]
                          THEN reader_fd ELSE [reader_fd EXCEPT ![i] = -1]
          /\ happy' = [happy EXCEPT ![i] = FALSE]
          /\ mutex' = [mutex EXCEPT ![i] = 0]
    /\ Goto(t, "close_exit")
    /\ UNCHANGED <<closed, interrupting, openedAsReader, opened, fdtab, objs,
                   nObj, net, hist>>

\* lines 205-206: happy = false; return
CloseExit(t) ==
    /\ At(t, "close_exit")
    /\ happy' = [happy EXCEPT ![Top(t).self] = FALSE]
    /\ closeReturned' = (closeReturned \/ Top(t).self = Main)
    /\ Return(t)
    /\ UNCHANGED <<closed, interrupting, fields, mutex, opened, os, net, actorCount>>

Close(t) ==
    \/ CloseEntry(t) \/ CloseMark(t) \/ CloseWait(t) \/ CloseLock(t)
    \/ CloseShutdown(t) \/ CloseClose(t) \/ CloseReset(t) \/ CloseExit(t)

\* ---------------------------------------------------------------- read()
\* a read() without the fail-fast test
ReadCheck_NoFailFast(t) ==
    /\ At(t, "read_check")
    /\ Goto(t, "read_sys")
    /\ UNCHANGED <<flags, fields, mutex, opened, os, net, hist>>

\* line 210: if (closed || !happy) return -1;
ReadCheck(t) ==
    /\ At(t, "read_check")
    /\ LET f == Top(t)
           i == f.self
       IN IF closed[i] \/ ~happy[i]
          THEN SetTop(t, [f EXCEPT !.pc = "read_ret", !.ret = -1])
          ELSE Goto(t, "read_sys")
    /\ UNCHANGED <<flags, fields, mutex, opened, os, net, hist>>

\* line 214: the call enters ::read on the object the descriptor names now
ReadSys(t) ==
    /\ At(t, "read_sys")
    /\ SetTop(t, [Top(t) EXCEPT !.pc = "read_wait", !.obj = ObjOf(RoleFd(Top(t).self))])
    /\ UNCHANGED <<flags, fields, mutex, opened, os, net, hist>>

\* line 214: ::read returns.  No object (EBADF) or a socket that is not
\* connected: -1.  A connection: a chunk the peer sent (1), or 0 once the
\* connection is shut down or the peer closed; otherwise the call blocks.
ReadWake(t) ==
    /\ At(t, "read_wait")
    /\ LET f == Top(t)
           o == f.obj
       IN \/ /\ KindOf(o) \in {"none", "sock", "listen"}
             /\ SetTop(t, [f EXCEPT !.pc = "read_exam", !.result = -1])
             /\ UNCHANGED inbuf
          \/ /\ KindOf(o) = "link" /\ inbuf > 0
             /\ inbuf' = inbuf - 1
             /\ SetTop(t, [f EXCEPT !.pc = "read_exam", !.result = 1])
          \/ /\ KindOf(o) \in {"link", "wake"}
             /\ objs[o].shut \/ (KindOf(o) = "link" /\ remoteClosed /\ inbuf = 0)
             /\ SetTop(t, [f EXCEPT !.pc = "read_exam", !.result = 0])
             /\ UNCHANGED inbuf
    /\ UNCHANGED <<flags, fields, mutex, opened, os, remoteClosed, hist>>

\* line 214: ::read of a connection fails (EINTR, ECONNRESET, ...)
ReadError(t) ==
    /\ At(t, "read_wait")
    /\ KindOf(Top(t).obj) \in {"link", "wake"}
    /\ SetTop(t, [Top(t) EXCEPT !.pc = "read_exam", !.result = -1])
    /\ UNCHANGED <<flags, fields, mutex, opened, os, net, hist>>

\* a test that treats a read error like end-of-stream
ReadEnds_AnyFailure(i, result) == closed[i] \/ result <= 0

\* a test that forgets closed
ReadEnds_EofOnly(i, result) == result = 0

\* line 215: the test that turns a result into "unhappy, -1"
ReadEnds(i, result) == closed[i] \/ result = 0

\* lines 215-223 (sawClosed records what the test read in closed)
ReadExam(t) ==
    /\ At(t, "read_exam")
    /\ LET f == Top(t)
           i == f.self
       IN IF ReadEnds(i, f.result)
          THEN /\ happy' = [happy EXCEPT ![i] = FALSE]
               /\ SetTop(t, [f EXCEPT !.pc = "read_ret", !.ret = -1,
                                      !.sawClosed = closed[i]])
          ELSE /\ SetTop(t, [f EXCEPT !.pc = "read_ret", !.sawClosed = closed[i],
                                      !.ret = IF f.result < 0 THEN -1 ELSE f.result])
               /\ UNCHANGED happy
    /\ UNCHANGED <<closed, interrupting, fields, mutex, opened, os, net, hist>>

\* lines 211, 217, 221, 223: return
ReadReturn(t) ==
    /\ At(t, "read_ret")
    /\ Return(t)
    /\ UNCHANGED <<flags, fields, mutex, opened, os, net, hist>>

Read(t) == ReadCheck(t) \/ ReadSys(t) \/ ReadWake(t) \/ ReadError(t) \/ ReadExam(t) \/ ReadReturn(t)

\* --------------------------------------------------------------- write()
\* lines 228-231: if (reader_fd < 0) { close(); return; }
WriteCheck(t) ==
    /\ At(t, "write_check")
    /\ IF reader_fd[Top(t).self] < 0
       THEN Call(t, "write_ret", NewFrame("close_entry", Top(t).self, Top(t).late))
       ELSE Goto(t, "write_sys")
    /\ UNCHANGED <<flags, fields, mutex, opened, os, net, hist>>

\* every write error closes the stream
Fatal_All(err) == TRUE

\* line 235: the write errors that close the stream
Fatal(err) == err # "timedout"

\* lines 232-239: ::write.  On a connection that is not shut down it
\* succeeds or fails with ETIMEDOUT or another error; on anything else it
\* fails with another error (EBADF, ENOTCONN, EPIPE).
WriteSys(t) ==
    /\ At(t, "write_sys")
    /\ LET f == Top(t)
           i == f.self
           o == ObjOf(RoleFd(i))
       IN \/ /\ Connected(o) /\ ~objs[o].shut
             /\ SetTop(t, [f EXCEPT !.pc = "write_ret", !.err = "none", !.obj = o])
          \/ \E e \in {"timedout", "other"} :
                /\ e = "timedout" => Connected(o) /\ ~objs[o].shut
                /\ IF Fatal(e)
                   THEN CallFrom(t, [f EXCEPT !.pc = "write_ret", !.err = e, !.obj = o],
                                 NewFrame("close_entry", i, f.late))
                   ELSE SetTop(t, [f EXCEPT !.pc = "write_ret", !.err = e, !.obj = o])
    /\ UNCHANGED <<flags, fields, mutex, opened, os, net, hist>>

\* lines 230, 238, 240: return
WriteReturn(t) ==
    /\ At(t, "write_ret")
    /\ Return(t)
    /\ UNCHANGED <<flags, fields, mutex, opened, os, net, hist>>

Write(t) == WriteCheck(t) \/ WriteSys(t) \/ WriteReturn(t)

\* ----------------------------------------------------------- remote peer
LinkUp == \E o \in Objs : objs[o].kind = "link" /\ objs[o].live

RemoteSend ==
    /\ LinkUp /\ ~remoteClosed /\ inbuf < MaxData
    /\ inbuf' = inbuf + 1
    /\ UNCHANGED <<flags, fields, mutex, stack, opened, os, remoteClosed, hist>>

RemoteClose ==
    /\ LinkUp /\ ~remoteClosed
    /\ remoteClosed' = TRUE
    /\ UNCHANGED <<flags, fields, mutex, stack, opened, os, inbuf, hist>>

\* a thread calls a method of the shared instance once open() has returned
Usable == opened \in {"ok", "failed"}

CallInterrupt(t) ==
    /\ ~Busy(t) /\ Usable
    /\ Enter(t, "int_check")
    /\ UNCHANGED <<flags, fields, mutex, opened, os, net, hist>>

CallClose(t) ==
    /\ ~Busy(t) /\ Usable
    /\ Enter(t, "close_entry")
    /\ UNCHANGED <<flags, fields, mutex, opened, os, net, hist>>

CallRead(t) ==
    /\ ~Busy(t) /\ Usable
    /\ Enter(t, "read_check")
    /\ UNCHANGED <<flags, fields, mutex, opened, os, net, hist>>

CallWrite(t) ==
    /\ ~Busy(t) /\ Usable
    /\ Enter(t, "write_check")
    /\ UNCHANGED <<flags, fields, mutex, opened, os, net, hist>>

Next ==
    \/ \E t \in Threads :
        \/ CallOpen(t) \/ Open(t)
        \/ CallInterrupt(t) \/ Interrupt(t)
        \/ CallClose(t) \/ Close(t)
        \/ CallRead(t) \/ Read(t)
        \/ CallWrite(t) \/ Write(t)
    \/ RemoteSend
    \/ RemoteClose

Spec == Init /\ [][Next]_vars

\* The steps a thread that is inside a call takes by itself: everything but
\* entering a new call and a ::read that fails for a reason of the peer or of
\* a signal.
Program(t) ==
    \/ Open(t) \/ Interrupt(t) \/ Close(t) \/ Write(t)
    \/ ReadCheck(t) \/ ReadSys(t) \/ ReadWake(t) \/ ReadExam(t) \/ ReadReturn(t)

\* the one thread that calls read()
Reader == 1

\* A receiver with one reading thread: the shared instance is opened as
\* receiver, Reader calls read() and nothing else, the other threads call
\* interrupt() and close().  A thread inside a call keeps running (every
\* socket call returns, the scheduler is fair); nothing forces a thread to
\* start a call, the peer to send or to close, or a ::read to fail.
WakeNext ==
    \/ \E t \in Threads :
        \/ CallOpenAs(t, FALSE) \/ Open(t)
        \/ Interrupt(t) \/ Close(t) \/ Read(t) \/ Write(t)
    \/ \E t \in Threads \ {Reader} : CallInterrupt(t) \/ CallClose(t)
    \/ CallRead(Reader)
    \/ RemoteSend
    \/ RemoteClose

WakeSpec == Init /\ [][WakeNext]_vars /\ \A t \in Threads : WF_vars(Program(t))

\* Concurrent callers of interrupt() and close(): the shared instance is
\* opened in either role and every thread calls interrupt() and close(), any
\* number of times.  A thread inside a call keeps running (every socket call
\* returns, the scheduler is fair and a thread that waits for the mutex gets
\* it when it is released again and again); nothing forces a thread to start
\* a call.
TermNext ==
    \E t \in Threads :
        \/ CallOpen(t) \/ Open(t)
        \/ CallInterrupt(t) \/ Interrupt(t)
        \/ CallClose(t) \/ Close(t)
        \/ Write(t)

TermSpec == Init /\ [][TermNext]_vars /\ \A t \in Threads : SF_vars(Program(t))

\* ================================================================ claims
FramesOf(t) == {stack[t][k] : k \in 1..Depth(t)}
\* thread t took a step of its own
Stepped(t) == stack'[t] # stack[t]
\* the positions of the actor between becoming the actor and its release
UnblockPcs == {"int_loop", "int_repoint", "int_tmpclose", "int_dtor", "int_scope", "int_release"}
TeardownPcs == {"close_shutdown", "close_close", "close_reset"}
\* the threads that are inside the unblock sequence of the shared instance
Actors == {t \in Threads : \E f \in FramesOf(t) : f.self = Main /\ f.act /\ f.pc \in UnblockPcs}
\* the threads that are in interrupt() on the shared instance, past the test, not the actor
Waiters == {t \in Threads : \E f \in FramesOf(t) :
                f.self = Main /\ ~f.act /\ f.pc \in {"int_wait", "int_ret"}}
\* the threads that work on a throwaway stream (wake connection, wake write)
Wakers == {t \in Threads : \E f \in FramesOf(t) : f.self # Main}

\* C1: of the threads that call interrupt() on the shared instance at most
\* one is inside the unblock sequence in any state, at most one ever becomes
\* the actor, exactly one does if the instance was healthy (a caller that is
\* not the actor exists only once there was an actor or the instance is
\* unhappy), interrupting is true exactly while the actor is inside the
\* sequence, and only the actor works on a wake connection.
C1_SingleActor ==
    /\ Cardinality(Actors) <= 1
    /\ actorCount <= 1
    /\ interrupting[Main] <=> Actors # {}
    /\ Wakers \subseteq Actors
    /\ Waiters # {} => actorCount = 1 \/ ~happy[Main]

C1_Witness ==
    \E t \in Actors, u \in Waiters :
        /\ t # u
        /\ At(u, "int_wait")
        /\ At(t, "write_sys") /\ Top(t).self = t

\* C3: on the shared instance no step takes happy from false to true and no
\* step takes closed from true to false.
C3_Monotonic ==
    [][(happy'[Main] => happy[Main]) /\ (closed[Main] => closed'[Main])]_vars

C3_Witness ==
    /\ closed[Main] /\ ~happy[Main] /\ closeReturned /\ opened = "ok"
    /\ \E t \in Threads : At(t, "read_ret") /\ Top(t).late

\* C4: a close() of the shared instance that starts after a close() of it
\* has returned never reaches the teardown (shutdown, close, unlink, reset
\* of the descriptor field).
C4_LateCloseIsNoop ==
    \A t \in Threads : \A f \in FramesOf(t) :
        (opened = "ok" /\ f.self = Main /\ f.late) => f.pc \notin TeardownPcs

\* C5: when interrupt() is about to return to a caller that was not the
\* actor, interrupting is false and no thread is inside the unblock sequence.
C5_WaiterAfterRelease ==
    \A t \in Threads :
        (At(t, "int_ret") /\ Top(t).self = Main /\ ~Top(t).act)
            => (~interrupting[Main] /\ Actors = {})

C5_Witness ==
    \E t, u \in Threads :
        /\ t # u
        /\ At(t, "int_ret") /\ Top(t).self = Main /\ ~Top(t).act
        /\ At(u, "int_ret") /\ Top(u).self = Main /\ Top(u).act
        /\ openedAsReader[Main] /\ opened = "ok"

\* C6: once a close() of the shared instance has returned, isOk() is false,
\* a read() that starts afterwards never enters ::read and returns -1, and a
\* write() that starts afterwards never writes to a live descriptor.
C6_AfterClose ==
    closeReturned =>
        /\ ~happy[Main]
        /\ \A t \in Threads : \A f \in FramesOf(t) :
              (f.self = Main /\ f.late) =>
                  /\ f.pc \notin {"read_sys", "read_wait", "read_exam"}
                  /\ f.pc = "read_ret" => f.ret = -1
                  /\ f.pc = "write_sys" => ~IsFd(RoleFd(Main))
                  /\ f.pc = "write_ret" => ~(f.err = "none" /\ f.obj # 0)

C6_Witness ==
    /\ closeReturned /\ opened = "ok"
    /\ \E t, u \in Threads :
          /\ At(t, "read_ret") /\ Top(t).late
          /\ At(u, "write_ret") /\ Top(u).late /\ Top(u).err = "other"

\* a thread is inside a close() of the shared instance that started after a
\* close() of it had returned
InLateClose(t) ==
    \E f \in FramesOf(t) :
        f.self = Main /\ f.late /\ f.pc \in {"close_mark", "close_wait", "close_lock",
                                              "close_shutdown", "close_close",
                                              "close_reset", "close_exit"}

\* C7: the connection of the shared instance is shut down only once closed
\* is true; a read() of a receiver that examines its result when closed is
\* true (woken by the teardown, or by bytes that arrived after closed was
\* set) returns -1 and leaves happy false; and a close() that starts after a
\* close() has returned is never stuck: it can take its next step, or waits
\* for the mutex held by a thread in the teardown.
C7_CloseWakesRead ==
    /\ \A o \in Objs : (objs[o].kind = "link" /\ objs[o].shut) => closed[Main]
    /\ \A t \in Threads :
          (At(t, "read_ret") /\ Top(t).self = Main /\ Top(t).sawClosed)
              => (Top(t).ret = -1 /\ ~happy[Main])
    /\ \A t \in Threads :
          InLateClose(t) => (ENABLED Program(t)) \/ mutex[Main] \notin {0, t}

C7_Witness ==
    /\ openedAsReader[Main] /\ opened = "ok" /\ closeReturned
    /\ \E t, u \in Threads :
          /\ At(t, "read_ret") /\ Top(t).self = Main /\ Top(t).sawClosed
          /\ Top(t).result = 1 /\ Top(t).ret = -1
          /\ InLateClose(u)

\* a thread is blocked in ::read on the accepted handle of the receiver
Blocked(t) ==
    /\ At(t, "read_wait") /\ Top(t).self = Main
    /\ openedAsReader[Main] /\ KindOf(Top(t).obj) = "link"

\* a thread is inside interrupt() on the shared instance
InInterrupt(t) ==
    \E f \in FramesOf(t) :
        f.self = Main /\ f.pc \in UnblockPcs \cup {"int_check", "int_wait", "int_ret"}

\* C2: whenever the reading thread of a receiver is blocked in ::read on the
\* accepted handle while another thread is inside interrupt(), the blocked
\* ::read eventually returns, whether or not the peer sends or closes.
C2_InterruptWakesRead ==
    (Blocked(Reader) /\ \E t \in Threads : InInterrupt(t)) ~> ~Blocked(Reader)

\* the reader is blocked and the actor has shut the accepted handle down
C2_Witness ==
    /\ Blocked(Reader) /\ ~remoteClosed /\ inbuf = 0
    /\ objs[Top(Reader).obj].shut
    /\ \E t \in Actors : t # Reader

\* C8: a write() of the shared instance whose ::write fails with ETIMEDOUT
\* returns without calling close() and changes no flag and no descriptor
\* field; one whose ::write fails with another error calls close(), has
\* isOk() false when it returns, and a read() that then starts returns -1
\* without entering ::read.
C8_WriteErrors ==
    [][\A t \in Threads :
         /\ (At(t, "write_sys") /\ Top(t).self = Main /\ Stepped(t)) =>
               \/ /\ stack'[t][Depth(t)].err = "timedout"
                  /\ Len(stack'[t]) = Depth(t)
                  /\ UNCHANGED <<closed, interrupting, happy, reader_fd, sender_fd>>
               \/ /\ stack'[t][Depth(t)].err = "other"
                  /\ Len(stack'[t]) = Depth(t) + 1
                  /\ stack'[t][Depth(t) + 1].pc = "close_entry"
                  /\ stack'[t][Depth(t) + 1].self = Main
               \/ /\ stack'[t][Depth(t)].err = "none"
                  /\ Len(stack'[t]) = Depth(t)
         /\ (At(t, "write_ret") /\ Top(t).self = Main /\ Top(t).err = "other")
               => ~happy[Main]
         /\ (At(t, "read_check") /\ Top(t).self = Main /\ ~happy[Main] /\ Stepped(t))
               => (stack'[t][Depth(t)].pc = "read_ret" /\ stack'[t][Depth(t)].ret = -1)
    ]_vars

C8_Witness ==
    /\ opened = "ok" /\ happy[Main] /\ ~closed[Main]
    /\ \E t \in Threads : At(t, "write_ret") /\ Top(t).self = Main /\ Top(t).err = "timedout"

\* C9 as stated: a read() whose ::read fails leaves happy unchanged in every
\* interleaving.
C9_ErrorKeepsHappy ==
    [][\A t \in Threads :
         (At(t, "read_exam") /\ Top(t).self = Main /\ Top(t).result = -1 /\ Stepped(t))
            => happy'[Main] = happy[Main]]_vars

\* C9 amended: a read() that sees 0 bytes sets happy = false and returns
\* -1; a read() whose ::read fails returns -1 and leaves happy unchanged if
\* closed is false when the result is examined, and sets happy = false if
\* closed is true then.
C9_ReadResults ==
    [][\A t \in Threads :
         (At(t, "read_exam") /\ Top(t).self = Main /\ Stepped(t)) =>
            /\ Top(t).result = 0 =>
                  /\ ~happy'[Main]
                  /\ stack'[t][Depth(t)].pc = "read_ret"
                  /\ stack'[t][Depth(t)].ret = -1
            /\ Top(t).result = -1 =>
                  /\ happy'[Main] = (happy[Main] /\ ~closed[Main])
                  /\ stack'[t][Depth(t)].pc = "read_ret"
                  /\ stack'[t][Depth(t)].ret = -1]_vars

C9_Witness ==
    /\ happy[Main] /\ ~closed[Main] /\ opened = "ok"
    /\ \E t \in Threads :
          At(t, "read_ret") /\ Top(t).self = Main /\ Top(t).result = -1
              /\ Top(t).ret = -1 /\ Top(t).obj # 0

\* both descriptor fields of the shared instance hold the sentinel
DescInvalid == reader_fd[Main] = -1 /\ sender_fd[Main] = -1

\* C10 as stated: on an opened instance exactly one of "closed is false" and
\* "the descriptors are invalid" holds.
C10_ClosedXorInvalid == opened = "ok" => ((~closed[Main]) # DescInvalid)

\* C10 amended: on an opened instance, whenever the descriptor of the role
\* (the accepted handle of a receiver, the connect handle of a sender) has
\* been reset to the sentinel, closed is true.
C10_InvalidImpliesClosed == (opened = "ok" /\ RoleFd(Main) = -1) => closed[Main]

C10_Witness == opened = "ok" /\ RoleFd(Main) = -1 /\ closed[Main] /\ closeReturned

\* the positions whose step runs between mutex.lock() and mutex.unlock()
\* (lines 133-139, 162-164, 181-183, 188-203)
LockedPcs == {"int_check", "int_release", "close_mark", "close_shutdown",
              "close_close", "close_reset"}
\* the positions at which a thread is inside a socket call that can block
BlockingPcs == {"open_connect", "open_accept", "read_wait", "write_sys"}

\* C11: once open() has returned, every step that changes closed,
\* interrupting, happy or a descriptor field of the shared instance is taken
\* by a thread between mutex.lock() and mutex.unlock() of that instance, and
\* no thread is inside a blocking socket call while it holds a mutex.
C11_WritesUnderMutex ==
    [][\A t \in Threads :
         /\ (/\ Usable /\ Stepped(t)
             /\ <<closed'[Main], interrupting'[Main], happy'[Main],
                  reader_fd'[Main], sender_fd'[Main]>>
                  # <<closed[Main], interrupting[Main], happy[Main],
                      reader_fd[Main], sender_fd[Main]>>)
               => (Top(t).self = Main /\ Top(t).pc \in LockedPcs)
         /\ (Busy(t) /\ Top(t).pc \in BlockingPcs)
               => \A i \in Instances : mutex[i] # t
    ]_vars

\* C12: the wake payload that a throwaway stream writes (line 153) goes to a
\* wake connection and never to the established connection, whose other end
\* is the remote sender: a ::write of a throwaway that succeeded was made on
\* a socket object that a throwaway's open(true) connected.
C12_WakeStaysInternal ==
    \A t \in Threads : \A f \in FramesOf(t) :
        (f.self # Main /\ f.pc = "write_ret" /\ f.err = "none" /\ f.obj # 0)
            => KindOf(f.obj) = "wake"

\* C13: every ::connect of open(true) is made with fewer than 5 failed
\* attempts behind it; the attempt that succeeds is the last one and open()
\* returns true, also when it is the 5th; a failed attempt raises the count
\* by one and open() returns false exactly when the count reaches 5.  Every
\* pass of the loop ends it or raises the count, so the loop ends within 5
\* passes.
C13_ConnectRetries ==
    [][\A t \in Threads :
         (At(t, "open_connect") /\ Stepped(t)) =>
            LET f == Top(t)
                g == stack'[t][Depth(t)]
                o == ObjOf(reader_fd[f.self])
                made == o # 0 /\ objs'[o].kind # objs[o].kind
            IN /\ f.sender /\ f.attempts < 5
               /\ made => (g.pc = "open_ret" /\ g.result = 1)
               /\ ~made => /\ g.attempts = f.attempts + 1
                           /\ g.pc = (IF g.attempts = 5 THEN "open_ret" ELSE "open_connect")
                           /\ g.result = 0
    ]_vars

\* open(true) of the shared instance is about to return true after four
\* failed attempts and a fifth that succeeded
C13_Witness ==
    \E t \in Threads :
        /\ At(t, "open_ret") /\ Top(t).self = Main /\ Top(t).sender
        /\ Top(t).attempts = 4 /\ Top(t).result = 1
        /\ KindOf(ObjOf(reader_fd[Main])) = "link"

\* the positions at which read() or write() is in, or about to make, a
\* socket call on a descriptor (lines 214, 232)
IoPcs == {"read_sys", "read_wait", "read_exam", "write_sys"}

\* C14: when open() of the shared instance returns true, happy is true and
\* closed is false; when it returns false, isOk() is false, and from then on
\* no read() or write() of the instance reaches its socket call.
C14_OpenDecidesUsable ==
    [][/\ \A t \in Threads :
            (At(t, "open_ret") /\ Top(t).self = Main /\ Stepped(t)) =>
                IF Top(t).result = 1
                THEN happy'[Main] /\ ~closed'[Main]
                ELSE ~happy'[Main]
       /\ opened = "failed" =>
            \A t \in Threads : \A f \in FramesOf(t) :
                f.self = Main => f.pc \notin IoPcs
    ]_vars

\* the positions of close() after its call of interrupt() has returned
AfterInterruptPcs == {"close_mark", "close_wait", "close_lock"} \cup TeardownPcs

InIntOrClose(t) ==
    Busy(t) /\ stack[t][1].pc \notin {"open_socket", "open_unlink", "open_bind",
                                      "open_listen", "open_accept", "open_connect",
                                      "open_ret"}

\* C16: a wake attempt is started only by the actor of a receiver and with
\* fewer than 3 attempts behind it (ct counts down from 3 and never passes
\* 0), the actor of a sender goes from the test straight to the release, and
\* every thread that is inside interrupt() or close() eventually returns
\* from it, whatever the other threads call.
C16_Terminates ==
    /\ [][\A t \in Threads :
            /\ \A f \in FramesOf(t) : f.ct \in 0..3
            /\ (At(t, "int_loop") /\ Stepped(t) /\ Len(stack'[t]) > Depth(t))
                  => (Top(t).act /\ openedAsReader[Top(t).self] /\ Top(t).ct \in 1..3)
            /\ (At(t, "int_check") /\ Stepped(t) /\ ~openedAsReader[Top(t).self])
                  => stack'[t][Depth(t)].pc \in {"int_release", "int_wait"}
         ]_vars
    /\ \A t \in Threads : InIntOrClose(t) ~> ~Busy(t)

\* the actor of a receiver is at its loop test with all 3 attempts used and
\* happy still true, while the other thread polls in interrupt()
C16_Witness ==
    \E t, u \in Threads :
        /\ t # u
        /\ At(t, "int_loop") /\ Top(t).self = Main /\ Top(t).act /\ Top(t).ct = 0
        /\ happy[Main] /\ openedAsReader[Main] /\ interrupting[Main]
        /\ At(u, "int_wait") /\ stack[u][1].pc = "close_mark"

\* C17: when interrupt() of an instance whose open() succeeded is about to
\* return to the actor, every connection that a throwaway's open(true) made
\* has been closed.
C17_WakeConnectionsClosed ==
    \A t \in Threads :
        (opened = "ok" /\ At(t, "int_ret") /\ Top(t).self = Main /\ Top(t).act)
            => \A o \in Objs : objs[o].kind = "wake" => ~objs[o].live

\* C18: on an instance whose open() succeeded, every descriptor number that
\* a close() passes to ::shutdown or ::close names an open descriptor at
\* that moment: none is passed again after it has been closed.
C18_NoStaleClose ==
    \A t \in Threads :
        (/\ opened = "ok"
         /\ Busy(t) /\ Top(t).pc \in {"close_shutdown", "close_close"}
         /\ RoleFd(Top(t).self) >= 0)
            => IsFd(RoleFd(Top(t).self))

\* C19: once a close() of an instance whose open() succeeded has returned,
\* both descriptor fields hold the sentinel and neither the listening socket
\* nor the connection that open() obtained is open.
C19_CloseReleasesAll ==
    (opened = "ok" /\ closeReturned) =>
        /\ DescInvalid
        /\ \A o \in Objs : objs[o].kind \in {"listen", "link"} => ~objs[o].live

\* C20: on every instance interrupting is true only while closed is true;
\* the step that sets interrupting finds closed false and sets it in the
\* same critical section; and once closed is true no thread becomes the
\* actor of that instance, so the shared instance has at most one unblock
\* sequence in its life.
C20_InterruptingImpliesClosed ==
    [][/\ \A i \in Instances : interrupting[i] => closed[i]
       /\ \A i \in Instances :
            (~interrupting[i] /\ interrupting'[i]) => (~closed[i] /\ closed'[i])
       /\ (closed[Main] /\ closed'[Main]) => actorCount' = actorCount
       /\ actorCount' <= 1
    ]_vars

\* a thread calls interrupt() on a sender after the one unblock sequence of
\* the instance is over; happy is still true, and the thread does not become
\* the actor
C20_Witness ==
    /\ opened = "ok" /\ ~openedAsReader[Main]
    /\ actorCount = 1 /\ ~interrupting[Main] /\ closed[Main] /\ happy[Main]
    /\ \E t \in Threads : At(t, "int_wait") /\ Top(t).self = Main /\ ~Top(t).act
====
